---- MODULE Spec2Model ----
(***************************************************************************)
(* Instance Manager of the LLM Local Ops Center: the two manager classes   *)
(* (ModelManager, which spawns vLLM subprocesses, and                      *)
(* LightweightModelManager, which loads models in-process), the port       *)
(* allocator, the ModelLogger log store and the background tasks of the    *)
(* asyncio event loop; and the WorkflowExecutor of the playground, which   *)
(* layers a workflow graph and runs its nodes on the lightweight manager.  *)
(*                                                                         *)
(* Scheduling model: everything runs on one asyncio event loop, so the     *)
(* code between two suspension points of a coroutine is one atomic step.   *)
(* A coroutine that is awaited and never suspends (stop_model inside       *)
(* remove_model, EmbeddingModelHandler.load_model) runs inside the step of *)
(* its caller.  Each action below is one such step.                        *)
(***************************************************************************)
EXTENDS Integers, Sequences, FiniteSets, TLC

\* ---------------------------------------------------------------- bounds
\* Number of environment events in one run: deploy_model calls that construct
\* an instance, stop_model / remove_model calls on a registered id, lines
\* printed by a subprocess, and faults (a spawn or a load that fails, a load
\* that is cancelled, a subprocess that exits on its own, a stop that times out).  Calls that fail
\* without constructing or stopping anything are not counted, and neither are
\* the steps of the background tasks.
MaxEvents == 3
\* settings.VLLM_MAX_INSTANCES as configured for the run (the default in
\* config.py is 5; the value is read from the environment).
VLLM_MAX_INSTANCES == 2
\* add_log calls of the log store client for its first id, and for its other id
MaxAppends == 502
MaxOtherAppends == 2
\* edges of one workflow definition
MaxEdges == 3
\* edges of a workflow definition that is executed
MaxRunEdges == 2
\* execute calls on one executor
MaxExecutes == 2
\* instances deployed where the progress of the background task is followed
MaxLiveInstances == 1

\* ------------------------------------------------------ program constants
VLLM_BASE_PORT == 8000
LIGHT_MAX_INSTANCES == 3
LOG_BUFFER_MAX == 1000
max_logs_per_model == 500
LIGHT_BASE_PORT == 8000

\* Python's None
None == "None"

\* Model names are paths: sequences of segments separated by "/".
ModelNames == { <<"gpt2">>, <<"sentence-transformers", "all-MiniLM-L6-v2">> }

\* Segments that contain one of the embedding indicators ('sentence-transformers',
\* 'minilm', ...) once lower-cased.
EmbeddingSegments == { "sentence-transformers", "all-MiniLM-L6-v2" }

\* request.port: 0 stands for an absent port (None and 0 are both falsy).
PreferredPorts == { 0, VLLM_BASE_PORT }

\* Lines a vLLM subprocess prints: a readiness marker ("Application startup
\* complete" / "Uvicorn running"), a line containing "error", any other line.
LineKinds == { "ready", "error", "other" }

\* str(e) of the exception a failing load raises: a message, or the empty
\* string (an exception constructed without arguments, such as MemoryError()
\* or the AssertionError of a bare assert).
ExceptionMessages == { "load failed", "" }

VARIABLES
  manager,      \* which manager class the process uses: "vllm" or "lightweight"
  objects,      \* every instance object constructed so far, in construction order
  instances,    \* the registry _instances: model id -> index into objects
  used_ports,   \* ModelManager._used_ports
  next_port,    \* _next_port
  handlers,     \* embedding_model_handler._embedding_handlers: name -> model state
  logs,         \* ModelLogger._logs: model id -> sequence of entries
  events,       \* environment events so far
  shutdown,     \* cleanup_all has run: the process is being torn down
  appended,     \* log store client: every entry it passed to add_log, per id
  fetched,      \* log store client: what its last get_logs call returned
  executor,     \* the WorkflowExecutor built from a workflow definition
  answer,       \* what the last validate_dag / get_execution_order call returned
  node_objects, \* the WorkflowNode objects of executor.nodes: node id -> object
  run,          \* the execute call on the executor: its locals and its outcome
  ret,          \* outcome of the API call made by the last step (Idle otherwise)
  trans         \* status assignments that changed a status in the last step

vars == << manager, objects, instances, used_ports, next_port, handlers, logs,
           events, shutdown, appended, fetched, executor, answer, node_objects, run,
           ret, trans >>

\* ------------------------------------------------------------- helpers
\* No model id: ids are pairs.
NoId == << >>

\* Optional[ModelInfo] and the like: a sequence of length 0 (None) or 1.
Nothing == << >>

\* op: "deploy", "stop", "remove", "generate", "generate_stream" or "none";
\* id: the model id the call named or generated; result: what the caller got
\* back ("ok", "limit", "duplicate" for a deploy; "True", "False", "ValueError"
\* for a stop; "True", "False" for a remove; "ValueError", "RuntimeError",
\* "invoked" for a generate); port: the port _allocate_port returned to the
\* call (0 when it was not called); preferred: request.port.
Result(op, id, result, port, preferred) ==
  [op |-> op, id |-> id, result |-> result, port |-> port, preferred |-> preferred]

Idle == Result("none", NoId, None, 0, 0)

EmptyMap == [x \in {} |-> None]

MapPut(f, k, v) == [x \in DOMAIN f \cup {k} |-> IF x = k THEN v ELSE f[x]]

MapDel(f, k) == [x \in DOMAIN f \ {k} |-> f[x]]

\* The status assignments of one step that changed the status, in order.
Changes(assigns) == SelectSeq(assigns, LAMBDA p : p[1] # p[2])

\* model_name.split("/")[-1]
ShortName(model_name) == model_name[Len(model_name)]

is_embedding_model(model_name) ==
  \E i \in 1..Len(model_name) : model_name[i] \in EmbeddingSegments

\* s[-n:] for n > 0
LastN(s, n) == IF Len(s) <= n THEN s ELSE SubSeq(s, Len(s) - n + 1, Len(s))

\* What datetime.now() returns to a deploy: << day, second of the day >>.  The
\* clock is read nowhere else, and the same second of a later day is reachable
\* from any reading, so the readings of one run are not ordered here.
Nows == { << 0, 0 >>, << 0, 1 >>, << 1, 0 >>, << 1, 1 >> }

\* now.strftime("%H%M%S"): the time of day, without the date
Timestamp(now) == now[2]

Objs == 1..Len(objects)

\* list(self._instances.keys()), as the objects the ids are bound to, in the
\* order the objects were constructed.
Registered ==
  SelectSeq([o \in Objs |-> o],
            LAMBDA o : /\ objects[o].model_id \in DOMAIN instances
                       /\ instances[objects[o].model_id] = o)

\* ------------------------------------------------------------ ModelLogger
\* A variant that drops the new entry, not the oldest, when the buffer is full.
DequeAppend_keeps_oldest(d, e, maxlen) ==
  IF Len(d) >= maxlen THEN d ELSE Append(d, e)

\* deque(maxlen): appending to a full deque drops the oldest entry.
DequeAppend(d, e, maxlen) ==
  IF Len(d) >= maxlen THEN Append(Tail(d), e) ELSE Append(d, e)

\* "[timestamp] [level] message"; the timestamp is not kept: nothing reads
\* it back
log_entry(message, level) == << level, message >>

add_log(L, model_id, message, level) ==
  LET buf == IF model_id \in DOMAIN L THEN L[model_id] ELSE << >>
  IN  MapPut(L, model_id, DequeAppend(buf, log_entry(message, level), max_logs_per_model))

RECURSIVE add_logs(_, _, _)
\* consecutive add_log calls of one step; each element is <<message, level>>
add_logs(L, model_id, msgs) ==
  IF msgs = << >> THEN L
  ELSE add_logs(add_log(L, model_id, msgs[1][1], msgs[1][2]), model_id, Tail(msgs))

\* A variant that slices from the front: all_logs[:lines].
get_logs_from_front(L, model_id, lines) ==
  IF model_id \notin DOMAIN L THEN << >>
  ELSE IF lines > 0
       THEN SubSeq(L[model_id], 1, IF lines < Len(L[model_id]) THEN lines ELSE Len(L[model_id]))
       ELSE L[model_id]

get_logs(L, model_id, lines) ==
  IF model_id \notin DOMAIN L THEN << >>
  ELSE IF lines > 0 THEN LastN(L[model_id], lines) ELSE L[model_id]

\* The ids the log store client logs under: ids as LightweightModelManager
\* generates them.
LogIds == { << "gpt2", 0 >>, << "gpt2", 1 >> }

\* An id nothing is logged under.
UnloggedId == << "opt-125m", 0 >>

\* lines arguments of get_logs: negative, zero, small, the default 500, and
\* the 1000 the log websocket asks for.
ReadLines == { -1, 0, 1, 2, 500, 1000 }

History(model_id) == IF model_id \in DOMAIN appended THEN appended[model_id] ELSE << >>

\* How many add_log calls the client makes for an id: enough to overflow the
\* buffer of the first id, a few for the other.
AppendBudget(model_id) == IF model_id = << "gpt2", 0 >> THEN MaxAppends ELSE MaxOtherAppends

\* A client calls model_logger.add_log(model_id, message); the message is the
\* number of the call for this id, so that all entries differ.
Log_add(model_id) ==
  /\ Len(History(model_id)) < AppendBudget(model_id)
  /\ LET message == Len(History(model_id)) + 1
     IN  /\ logs' = add_log(logs, model_id, message, "INFO")
         /\ appended' = MapPut(appended, model_id,
                               Append(History(model_id), log_entry(message, "INFO")))
  /\ fetched' = Nothing
  /\ ret' = Idle
  /\ trans' = << >>
  /\ UNCHANGED << manager, executor, answer, node_objects, run, objects, instances, used_ports, next_port, handlers,
                  events, shutdown >>

\* A client calls model_logger.get_logs(model_id, lines), which assigns nothing.
Log_get(model_id, lines) ==
  /\ fetched' = << [id |-> model_id, lines |-> lines,
                    result |-> get_logs(logs, model_id, lines)] >>
  /\ ret' = Idle
  /\ trans' = << >>
  /\ UNCHANGED << manager, executor, answer, node_objects, run, objects, instances, used_ports, next_port, handlers,
                  logs, events, shutdown, appended >>

LogNext ==
  \/ \E id \in LogIds : Log_add(id)
  \/ \E id \in LogIds \cup { UnloggedId }, n \in ReadLines : Log_get(id, n)

\* --------------------------------------------------------- ModelManager
RECURSIVE ScanFree(_, _)
\* while self._next_port in self._used_ports: self._next_port += 1
ScanFree(p, used) == IF p \in used THEN ScanFree(p + 1, used) ELSE p

\* A variant that grants the preferred port without looking at the held set.
allocate_port_unchecked(preferred_port, used, next) ==
  IF preferred_port # 0
  THEN [port |-> preferred_port, used |-> used \cup {preferred_port}, next |-> next]
  ELSE LET p == ScanFree(next, used)
       IN  [port |-> p, used |-> used \cup {p}, next |-> p + 1]

\* A variant whose automatic allocation grants the lowest free port from the
\* base port on.
allocate_port_lowest_free(preferred_port, used, next) ==
  IF preferred_port # 0 /\ preferred_port \notin used
  THEN [port |-> preferred_port, used |-> used \cup {preferred_port}, next |-> next]
  ELSE LET p == ScanFree(VLLM_BASE_PORT, used)
       IN  [port |-> p, used |-> used \cup {p}, next |-> p + 1]

\* A variant whose preferred grant moves the cursor past the granted port.
allocate_port_advances_cursor(preferred_port, used, next) ==
  IF preferred_port # 0 /\ preferred_port \notin used
  THEN [port |-> preferred_port, used |-> used \cup {preferred_port},
        next |-> preferred_port + 1]
  ELSE LET p == ScanFree(next, used)
       IN  [port |-> p, used |-> used \cup {p}, next |-> p + 1]

allocate_port(preferred_port, used, next) ==
  IF preferred_port # 0 /\ preferred_port \notin used
  THEN [port |-> preferred_port, used |-> used \cup {preferred_port}, next |-> next]
  ELSE LET p == ScanFree(next, used)
       IN  [port |-> p, used |-> used \cup {p}, next |-> p + 1]

MM_generate_model_id(model_name, port) == << ShortName(model_name), port >>

\* A variant of the constructor for a deploy that starts the instance itself.
ModelInstance_already_starting(model_id, model_name, port) ==
  [ model_id |-> model_id, model_name |-> model_name, port |-> port,
    process |-> None, pid |-> None, status |-> "STARTING",
    start_time |-> "set", error_message |-> None, log_buffer |-> << >>,
    stdout |-> << >>, task |-> "scheduled", reader |-> None ]

\* ModelInstance.__init__
ModelInstance(model_id, model_name, port) ==
  [ model_id |-> model_id, model_name |-> model_name, port |-> port,
    process |-> None, pid |-> None, status |-> "INITIALIZING",
    start_time |-> None, error_message |-> None, log_buffer |-> << >>,
    stdout |-> << >>,       \* lines written by the subprocess and not yet read
    task |-> "scheduled",   \* the _start_vllm_process task
    reader |-> None ]       \* the _read_process_logs task

\* An id ModelManager never generates (no port is 0).
UnusedId == << "gpt2", 0 >>

\* Ids a caller passes to stop_model / remove_model: the registered ones, the
\* ids of instances removed from (or replaced in) the registry, and an id that
\* was never deployed.
CallIds ==
  DOMAIN instances \cup { objects[o].model_id : o \in Objs } \cup { UnusedId }

\* A variant of the limit check that lets one instance too many in.
MM_limit_reached_off_by_one == Cardinality(DOMAIN instances) > VLLM_MAX_INSTANCES

\* len(self._instances) >= settings.VLLM_MAX_INSTANCES
MM_limit_reached == Cardinality(DOMAIN instances) >= VLLM_MAX_INSTANCES

\* deploy_model: no suspension point, one step.
MM_deploy_model(model_name, preferred_port) ==
  /\ manager = "vllm"
  /\ trans' = << >>
  /\ UNCHANGED << manager, appended, fetched, executor, answer, node_objects, run, shutdown, handlers, logs >>
  /\ IF MM_limit_reached
     THEN /\ ret' = Result("deploy", NoId, "limit", 0, preferred_port)
          /\ UNCHANGED << objects, instances, used_ports, next_port, events >>
     ELSE LET a == allocate_port(preferred_port, used_ports, next_port)
              model_id == MM_generate_model_id(model_name, a.port)
          IN  /\ used_ports' = a.used
              /\ next_port' = a.next
              /\ IF model_id \in DOMAIN instances
                 THEN /\ ret' = Result("deploy", model_id, "duplicate", a.port, preferred_port)
                      /\ UNCHANGED << objects, instances, events >>
                 ELSE /\ events < MaxEvents
                      /\ events' = events + 1
                      /\ objects' = Append(objects, ModelInstance(model_id, model_name, a.port))
                      /\ instances' = MapPut(instances, model_id, Len(objects) + 1)
                      /\ ret' = Result("deploy", model_id, "ok", a.port, preferred_port)

\* _start_vllm_process: no suspension point, one step.  spawned = FALSE is
\* subprocess.Popen raising.
MM_start_vllm_process(o, spawned) ==
  /\ manager = "vllm"
  /\ objects[o].task = "scheduled"
  /\ spawned \/ events < MaxEvents
  /\ events' = IF spawned THEN events ELSE events + 1
  /\ LET inst == objects[o]
         started == [inst EXCEPT !.status = "STARTING", !.start_time = "set", !.task = "done"]
     IN  IF spawned
         THEN /\ objects' = [objects EXCEPT ![o] =
                    [started EXCEPT !.process = "alive", !.pid = "set",
                                    !.status = "RUNNING", !.reader = "running"]]
              /\ trans' = Changes(<< <<inst.status, "STARTING">>, <<"STARTING", "RUNNING">> >>)
         ELSE /\ objects' = [objects EXCEPT ![o] =
                    [started EXCEPT !.status = "FAILED", !.error_message = "spawn failed"]]
              /\ trans' = Changes(<< <<inst.status, "STARTING">>, <<"STARTING", "FAILED">> >>)
  /\ ret' = Idle
  /\ UNCHANGED << manager, appended, fetched, executor, answer, node_objects, run, shutdown, instances, used_ports, next_port, handlers, logs >>

\* The subprocess prints a line.
ProcessWrite(o, kind) ==
  /\ manager = "vllm"
  /\ objects[o].process = "alive"
  /\ events < MaxEvents
  /\ events' = events + 1
  /\ objects' = [objects EXCEPT ![o].stdout = Append(@, kind)]
  /\ ret' = Idle
  /\ trans' = << >>
  /\ UNCHANGED << manager, appended, fetched, executor, answer, node_objects, run, shutdown, instances, used_ports, next_port, handlers, logs >>

\* The subprocess exits on its own; it stays a zombie until it is waited for.
ProcessExit(o) ==
  /\ manager = "vllm"
  /\ objects[o].process = "alive"
  /\ events < MaxEvents
  /\ events' = events + 1
  /\ objects' = [objects EXCEPT ![o].process = "exited"]
  /\ ret' = Idle
  /\ trans' = << >>
  /\ UNCHANGED << manager, appended, fetched, executor, answer, node_objects, run, shutdown, instances, used_ports, next_port, handlers, logs >>

\* One iteration of the loop of _read_process_logs, from the return of
\* readline to the next readline.  readline returns a line when one is
\* buffered, and "" at end of file, which is when the process is gone.
MM_read_process_logs(o) ==
  /\ manager = "vllm"
  /\ objects[o].reader = "running"
  /\ LET inst == objects[o]
     IN  IF inst.stdout # << >>
         THEN LET line == Head(inst.stdout)
                  s1 == IF line = "ready" THEN "RUNNING" ELSE inst.status
                  s2 == IF line = "error" /\ s1 = "STARTING" THEN "ERROR" ELSE s1
              IN  /\ objects' = [objects EXCEPT ![o] =
                        [inst EXCEPT !.stdout = Tail(@),
                                     !.log_buffer = LastN(Append(@, line), LOG_BUFFER_MAX),
                                     !.status = s2,
                                     !.error_message = IF s2 = "ERROR" /\ s1 # "ERROR"
                                                       THEN line ELSE @]]
                  /\ trans' = Changes(<< <<inst.status, s1>>, <<s1, s2>> >>)
         ELSE /\ inst.process # "alive"
              \* process.poll() is not None: it reaps the process
              /\ objects' = [objects EXCEPT ![o] =
                    [inst EXCEPT !.status = "STOPPED", !.process = "reaped",
                                 !.reader = "done"]]
              /\ trans' = Changes(<< <<inst.status, "STOPPED">> >>)
  /\ ret' = Idle
  /\ UNCHANGED events
  /\ UNCHANGED << manager, appended, fetched, executor, answer, node_objects, run, shutdown, instances, used_ports, next_port, handlers, logs >>

\* What a stop attempt on a live process ends with: it exits on SIGTERM within
\* 10 s, it exits on SIGKILL within 5 s, or it does neither and the second
\* wait raises TimeoutExpired.
StopOutcomes == { "graceful", "forced", "timeout" }

\* The body of stop_model for a registered instance: the instance afterwards,
\* the value returned, whether the port was discarded from the held set, and
\* the status assignments made.
MM_stop_instance(inst, outcome) ==
  IF inst.process = None \/ inst.pid = None
  THEN [ inst |-> [inst EXCEPT !.status = "STOPPED"], result |-> "True",
         release |-> FALSE, assigns |-> << <<inst.status, "STOPPED">> >> ]
  ELSE IF \/ inst.process = "reaped"                        \* psutil.NoSuchProcess
          \/ inst.process = "alive" /\ outcome = "timeout"  \* psutil.TimeoutExpired
  THEN [ inst |-> [inst EXCEPT !.status = "STOPPING", !.error_message = "stop failed"],
         result |-> "False", release |-> FALSE,
         assigns |-> << <<inst.status, "STOPPING">> >> ]
  ELSE [ inst |-> [inst EXCEPT !.status = "STOPPED", !.pid = None, !.process = "reaped"],
         result |-> "True", release |-> TRUE,
         assigns |-> << <<inst.status, "STOPPING">>, <<"STOPPING", "STOPPED">> >> ]

\* Events of a stop attempt: the call, and the fault when it runs into a
\* process that survives SIGKILL for 5 s.
StopEvents(inst, outcome) ==
  IF inst.process = "alive" /\ inst.pid # None /\ outcome = "timeout" THEN 2 ELSE 1

\* stop_model: no suspension point (the psutil waits block the loop), one step.
MM_stop_model(model_id, outcome) ==
  /\ manager = "vllm"
  /\ IF model_id \notin DOMAIN instances
     THEN /\ ret' = Result("stop", model_id, "ValueError", 0, 0)
          /\ trans' = << >>
          /\ UNCHANGED << objects, used_ports, events >>
     ELSE LET o == instances[model_id]
              r == MM_stop_instance(objects[o], outcome)
          IN  /\ events + StopEvents(objects[o], outcome) <= MaxEvents
              /\ events' = events + StopEvents(objects[o], outcome)
              /\ objects' = [objects EXCEPT ![o] = r.inst]
              /\ used_ports' = IF r.release THEN used_ports \ {objects[o].port}
                                            ELSE used_ports
              /\ ret' = Result("stop", model_id, r.result, 0, 0)
              /\ trans' = Changes(r.assigns)
  /\ UNCHANGED << manager, appended, fetched, executor, answer, node_objects, run, shutdown, instances, next_port, handlers, logs >>

\* A variant that reports success for an id that is not registered.
MM_remove_unknown_reports_success(model_id) ==
  /\ ret' = Result("remove", model_id, "True", 0, 0)
  /\ trans' = << >>
  /\ UNCHANGED << objects, instances, used_ports, events >>

\* remove_model on an id that is not in the registry: return False.
MM_remove_unknown(model_id) ==
  /\ ret' = Result("remove", model_id, "False", 0, 0)
  /\ trans' = << >>
  /\ UNCHANGED << objects, instances, used_ports, events >>

\* remove_model: awaits stop_model, which never suspends; one step.
MM_remove_model(model_id, outcome) ==
  /\ manager = "vllm"
  /\ IF model_id \in DOMAIN instances
     THEN LET o == instances[model_id]
              r == MM_stop_instance(objects[o], outcome)
          IN  /\ events + StopEvents(objects[o], outcome) <= MaxEvents
              /\ events' = events + StopEvents(objects[o], outcome)
              /\ objects' = [objects EXCEPT ![o] = r.inst]
              /\ used_ports' = IF r.release THEN used_ports \ {objects[o].port}
                                            ELSE used_ports
              /\ instances' = MapDel(instances, model_id)
              /\ ret' = Result("remove", model_id, "True", 0, 0)
              /\ trans' = Changes(r.assigns)
     ELSE MM_remove_unknown(model_id)
  /\ UNCHANGED << manager, appended, fetched, executor, answer, node_objects, run, shutdown, next_port, handlers, logs >>

RECURSIVE MM_stop_all(_, _, _)
\* The loop of cleanup_all over the registered objects os: st holds the
\* objects, the held ports, the status assignments and the events so far;
\* outs gives what each stop attempt ends with.  A stop that fails returns
\* False, which the loop ignores.
MM_stop_all(os, outs, st) ==
  IF os = << >> THEN st
  ELSE LET o == Head(os)
           r == MM_stop_instance(st.objects[o], outs[o])
       IN  MM_stop_all(Tail(os), outs,
             [ objects |-> [st.objects EXCEPT ![o] = r.inst],
               used    |-> IF r.release THEN st.used \ {st.objects[o].port} ELSE st.used,
               assigns |-> st.assigns \o r.assigns,
               events  |-> st.events + StopEvents(st.objects[o], outs[o]) - 1 ])

\* cleanup_all, called by the lifespan of main.py at teardown: stop_model never
\* suspends, so the whole loop is one step.
MM_cleanup_all(outs) ==
  /\ manager = "vllm"
  /\ ~ shutdown
  /\ LET st == MM_stop_all(Registered, outs,
                  [ objects |-> objects, used |-> used_ports, assigns |-> << >>,
                    events |-> events + 1 ])
     IN  /\ st.events <= MaxEvents
         /\ events' = st.events
         /\ objects' = st.objects
         /\ used_ports' = st.used
         /\ trans' = Changes(st.assigns)
  /\ shutdown' = TRUE
  /\ ret' = Result("cleanup", NoId, None, 0, 0)
  /\ UNCHANGED << manager, appended, fetched, executor, answer, node_objects, run, instances, next_port, handlers, logs >>

\* ModelManager.get_model / get_logs
MM_get_model(model_id) ==
  IF model_id \in DOMAIN instances THEN << objects[instances[model_id]] >> ELSE Nothing

\* instance.log_buffer[-lines:], which is the whole buffer for lines = 0
MM_get_logs(model_id, lines) ==
  IF model_id \notin DOMAIN instances THEN << >>
  ELSE IF lines = 0 THEN objects[instances[model_id]].log_buffer
  ELSE LastN(objects[instances[model_id]].log_buffer, lines)

\* API calls arrive until teardown; the background tasks and the subprocesses
\* go on for as long as the event loop runs.
VllmNext ==
  \/ ~ shutdown /\ \E n \in ModelNames, p \in PreferredPorts : MM_deploy_model(n, p)
  \/ \E o \in Objs, spawned \in BOOLEAN : MM_start_vllm_process(o, spawned)
  \/ \E o \in Objs, k \in LineKinds : ProcessWrite(o, k)
  \/ \E o \in Objs : ProcessExit(o)
  \/ \E o \in Objs : MM_read_process_logs(o)
  \/ ~ shutdown /\ \E id \in CallIds, out \in StopOutcomes : MM_stop_model(id, out)
  \/ ~ shutdown /\ \E id \in CallIds, out \in StopOutcomes : MM_remove_model(id, out)
  \/ \E outs \in [Objs -> StopOutcomes] : MM_cleanup_all(outs)

\* ----------------------------------------------- LightweightModelManager
\* instance.embedding_handler before a handler is attached; a handler is
\* referred to by the model name it is registered under.
NoHandler == << >>

\* LightweightModelInstance.__init__; runner is the CPUModelRunner: None,
\* "created" (model and tokenizer None), "tokenizer" (tokenizer loaded, model
\* None), "loaded", "deleted" (unload_model has deleted both attributes), or
\* "tokenizer_deleted" (a cancelled load has deleted the tokenizer; model None).
LightweightModelInstance(model_id, model_name, port) ==
  [ model_id |-> model_id, model_name |-> model_name, port |-> port,
    status |-> "INITIALIZING", start_time |-> None, error_message |-> None,
    runner |-> None,
    model_type |-> IF is_embedding_model(model_name) THEN "embedding" ELSE "chat",
    embedding_handler |-> NoHandler,
    task |-> "scheduled" ]   \* the _load_model task: where it is suspended,
                             \* "done" or "cancelled"

LW_generate_model_id(model_name, now) == << ShortName(model_name), Timestamp(now) >>

\* deploy_model: no suspension point, one step.
LW_deploy_model(model_name, now) ==
  /\ manager = "lightweight"
  /\ trans' = << >>
  /\ UNCHANGED << manager, appended, fetched, executor, answer, node_objects, run, shutdown, used_ports, handlers >>
  /\ IF Cardinality(DOMAIN instances) >= LIGHT_MAX_INSTANCES
     THEN /\ ret' = Result("deploy", NoId, "limit", 0, 0)
          /\ UNCHANGED << objects, instances, next_port, logs, events >>
     ELSE LET model_id == LW_generate_model_id(model_name, now)
          IN  /\ events < MaxEvents
              /\ events' = events + 1
              /\ next_port' = next_port + 1
              /\ objects' = Append(objects,
                               LightweightModelInstance(model_id, model_name, next_port))
              /\ instances' = MapPut(instances, model_id, Len(objects) + 1)
              /\ logs' = add_logs(logs, model_id,
                            << <<"Deployment started", "INFO">>,
                               <<"Started loading model", "INFO">> >>)
              /\ ret' = Result("deploy", model_id, "ok", 0, 0)

\* _load_model from its start to its first suspension.  A chat model suspends
\* in CPUModelRunner.load_model, awaiting the tokenizer from the thread pool.
\* EmbeddingModelHandler.load_model has no suspension point, so an embedding
\* model is loaded (loaded = TRUE) or fails to load within this step; e is
\* str(e) of the exception raised when it fails.
LW_load_model_start(o, loaded, e) ==
  /\ manager = "lightweight"
  /\ objects[o].task = "scheduled"
  /\ LET inst == objects[o]
         id == inst.model_id
         begun == << <<"Loading", "INFO">>, <<"This may take 1-3 minutes", "INFO">> >>
     IN  IF inst.model_type = "embedding"
         THEN /\ loaded \/ events < MaxEvents
              /\ events' = IF loaded THEN events ELSE events + 1
              /\ IF loaded
                 THEN /\ handlers' = MapPut(handlers, inst.model_name, "loaded")
                      /\ objects' = [objects EXCEPT ![o] =
                            [inst EXCEPT !.start_time = "set", !.task = "done",
                                         !.embedding_handler = inst.model_name,
                                         !.status = "RUNNING"]]
                      /\ logs' = add_logs(logs, id, begun \o
                            << <<"Loading embedding model", "INFO">>,
                               <<"Embedding model ready", "INFO">>,
                               <<"Model is now RUNNING", "INFO">> >>)
                      /\ trans' = Changes(<< <<inst.status, "STARTING">>,
                                             <<"STARTING", "RUNNING">> >>)
                 ELSE /\ handlers' = IF inst.model_name \in DOMAIN handlers THEN handlers
                                     ELSE MapPut(handlers, inst.model_name, "unloaded")
                      /\ objects' = [objects EXCEPT ![o] =
                            [inst EXCEPT !.start_time = "set", !.task = "done",
                                         !.status = "FAILED",
                                         !.error_message = e]]
                      /\ logs' = add_logs(logs, id, begun \o
                            << <<"Loading embedding model", "INFO">>,
                               <<"Failed to load model", "ERROR">> >>)
                      /\ trans' = Changes(<< <<inst.status, "STARTING">>,
                                             <<"STARTING", "FAILED">> >>)
         ELSE /\ loaded
              /\ objects' = [objects EXCEPT ![o] =
                    [inst EXCEPT !.start_time = "set", !.task = "tokenizer",
                                 !.status = "STARTING", !.runner = "created"]]
              /\ logs' = add_logs(logs, id, begun \o
                    << <<"Creating model runner", "INFO">>,
                       <<"Downloading/loading model weights", "INFO">> >>)
              /\ trans' = Changes(<< <<inst.status, "STARTING">> >>)
              /\ UNCHANGED << handlers, events >>
  /\ ret' = Idle
  /\ UNCHANGED << manager, appended, fetched, executor, answer, node_objects, run, shutdown, instances, used_ports, next_port >>

\* A variant in which the failed load ends the task and leaves the status.
LW_load_failed_keeps_status(o, e) ==
  /\ objects' = [objects EXCEPT ![o] = [@ EXCEPT !.task = "done"]]
  /\ logs' = add_log(logs, objects[o].model_id, "Failed to load model", "ERROR")
  /\ trans' = << >>

\* The rest of _load_model once a load failed: the except branch.
LW_load_failed(o, e) ==
  /\ objects' = [objects EXCEPT ![o] =
        [@ EXCEPT !.task = "done", !.status = "FAILED", !.error_message = e]]
  /\ logs' = add_log(logs, objects[o].model_id, "Failed to load model", "ERROR")
  /\ trans' = Changes(<< <<objects[o].status, "FAILED">> >>)

\* The tokenizer load returns (loaded) or raises: CPUModelRunner.load_model
\* resumes and, when it got the tokenizer, suspends again awaiting the weights.
LW_load_model_tokenizer(o, loaded, e) ==
  /\ manager = "lightweight"
  /\ objects[o].task = "tokenizer"
  /\ loaded \/ events < MaxEvents
  /\ events' = IF loaded THEN events ELSE events + 1
  /\ IF loaded
     THEN /\ objects' = [objects EXCEPT ![o] =
                [@ EXCEPT !.task = "weights",
                          !.runner = IF @ = "created" THEN "tokenizer" ELSE @]]
          /\ trans' = << >>
          /\ UNCHANGED logs
     ELSE LW_load_failed(o, e)
  /\ ret' = Idle
  /\ UNCHANGED << manager, appended, fetched, executor, answer, node_objects, run, shutdown, instances, used_ports, next_port, handlers >>

\* The weights load returns (loaded) or raises: CPUModelRunner.load_model
\* returns and _load_model runs to its end.
LW_load_model_weights(o, loaded, e) ==
  /\ manager = "lightweight"
  /\ objects[o].task = "weights"
  /\ loaded \/ events < MaxEvents
  /\ events' = IF loaded THEN events ELSE events + 1
  /\ IF loaded
     THEN /\ objects' = [objects EXCEPT ![o] =
                [@ EXCEPT !.task = "done", !.runner = "loaded", !.status = "RUNNING"]]
          /\ logs' = add_logs(logs, objects[o].model_id,
                        << <<"Chat model ready", "INFO">>,
                           <<"Model is now RUNNING", "INFO">> >>)
          /\ trans' = Changes(<< <<objects[o].status, "RUNNING">> >>)
     ELSE LW_load_failed(o, e)
  /\ ret' = Idle
  /\ UNCHANGED << manager, appended, fetched, executor, answer, node_objects, run, shutdown, instances, used_ports, next_port, handlers >>

\* The _load_model task is cancelled (the event loop cancels the tasks that
\* are left when it shuts down; nothing else holds the task).  A task that has
\* not started never runs.  A task suspended in CPUModelRunner.load_model gets
\* CancelledError there: the handler deletes the attributes that are set (the
\* tokenizer, when the weights were awaited) and re-raises, and the
\* "except Exception" of _load_model does not catch CancelledError, so the
\* status is left as it is.
LW_cancel_load(o) ==
  /\ manager = "lightweight"
  /\ objects[o].task \in { "scheduled", "tokenizer", "weights" }
  /\ events < MaxEvents
  /\ events' = events + 1
  /\ objects' = [objects EXCEPT ![o] =
        [@ EXCEPT !.task = "cancelled",
                  !.runner = IF @ = "tokenizer" THEN "tokenizer_deleted" ELSE @]]
  /\ ret' = Idle
  /\ trans' = << >>
  /\ UNCHANGED << manager, appended, fetched, executor, answer, node_objects, run, shutdown, instances, used_ports, next_port, handlers, logs >>

\* The body of stop_model for a registered instance: the instance and the
\* handler registry afterwards, the value returned and the status assignments
\* made.  CPUModelRunner.unload_model deletes the attributes model and
\* tokenizer, so calling it again raises AttributeError on "if self.model".
LW_stop_instance(inst, hs) ==
  IF inst.runner = "deleted"
  THEN [ inst |-> [inst EXCEPT !.status = "STOPPING", !.error_message = "stop failed"],
         handlers |-> hs, result |-> "False",
         assigns |-> << <<inst.status, "STOPPING">> >> ]
  ELSE [ inst |-> [inst EXCEPT !.status = "STOPPED",
                               !.runner = IF @ = "loaded" THEN "deleted" ELSE @],
         handlers |-> IF inst.embedding_handler # NoHandler
                      THEN MapPut(hs, inst.embedding_handler, "unloaded") ELSE hs,
         result |-> "True",
         assigns |-> << <<inst.status, "STOPPING">>, <<"STOPPING", "STOPPED">> >> ]

\* stop_model: no suspension point, one step.
LW_stop_model(model_id) ==
  /\ manager = "lightweight"
  /\ IF model_id \notin DOMAIN instances
     THEN /\ ret' = Result("stop", model_id, "ValueError", 0, 0)
          /\ trans' = << >>
          /\ UNCHANGED << objects, handlers, events >>
     ELSE LET o == instances[model_id]
              r == LW_stop_instance(objects[o], handlers)
          IN  /\ events < MaxEvents
              /\ events' = events + 1
              /\ objects' = [objects EXCEPT ![o] = r.inst]
              /\ handlers' = r.handlers
              /\ ret' = Result("stop", model_id, r.result, 0, 0)
              /\ trans' = Changes(r.assigns)
  /\ UNCHANGED << manager, appended, fetched, executor, answer, node_objects, run, shutdown, instances, used_ports, next_port, logs >>

\* remove_model: awaits stop_model, which never suspends; one step.
LW_remove_model(model_id) ==
  /\ manager = "lightweight"
  /\ IF model_id \in DOMAIN instances
     THEN LET o == instances[model_id]
              r == LW_stop_instance(objects[o], handlers)
          IN  /\ events < MaxEvents
              /\ events' = events + 1
              /\ objects' = [objects EXCEPT ![o] = r.inst]
              /\ handlers' = r.handlers
              /\ instances' = MapDel(instances, model_id)
              /\ ret' = Result("remove", model_id, "True", 0, 0)
              /\ trans' = Changes(r.assigns)
     ELSE /\ ret' = Result("remove", model_id, "False", 0, 0)
          /\ trans' = << >>
          /\ UNCHANGED << objects, handlers, instances, events >>
  /\ UNCHANGED << manager, appended, fetched, executor, answer, node_objects, run, shutdown, used_ports, next_port, logs >>

RECURSIVE LW_stop_all(_, _)
\* The loop of cleanup_all over the registered objects os.
LW_stop_all(os, st) ==
  IF os = << >> THEN st
  ELSE LET o == Head(os)
           r == LW_stop_instance(st.objects[o], st.handlers)
       IN  LW_stop_all(Tail(os),
             [ objects  |-> [st.objects EXCEPT ![o] = r.inst],
               handlers |-> r.handlers,
               assigns  |-> st.assigns \o r.assigns ])

\* cleanup_all: one step.  (The lifespan of main.py calls cleanup_all of
\* ModelManager whichever manager the routers use; this is the method of
\* LightweightModelManager, run at teardown as its docstring intends.)
LW_cleanup_all ==
  /\ manager = "lightweight"
  /\ ~ shutdown
  /\ events < MaxEvents
  /\ events' = events + 1
  /\ LET st == LW_stop_all(Registered,
                  [ objects |-> objects, handlers |-> handlers, assigns |-> << >> ])
     IN  /\ objects' = st.objects
         /\ handlers' = st.handlers
         /\ trans' = Changes(st.assigns)
  /\ shutdown' = TRUE
  /\ ret' = Result("cleanup", NoId, None, 0, 0)
  /\ UNCHANGED << manager, appended, fetched, executor, answer, node_objects, run, instances, used_ports, next_port, logs >>

\* A variant of the status test that also lets a STARTING instance through.
LW_is_running_or_starting(inst) == inst.status \in { "RUNNING", "STARTING" }

\* the negation of: instance.status != ModelStatus.RUNNING
LW_is_running(inst) == inst.status = "RUNNING"

\* generate (stream = FALSE) and generate_stream (stream = TRUE) up to the call
\* of instance.runner.generate: "ValueError" is raised by the manager before
\* the runner is touched, "RuntimeError" by CPUModelRunner.generate on a
\* runner that is not loaded, "invoked" is the backend generating.
LW_generate(model_id, stream) ==
  /\ manager = "lightweight"
  /\ ret' = Result(IF stream THEN "generate_stream" ELSE "generate", model_id,
                   IF model_id \notin DOMAIN instances THEN "ValueError"
                   ELSE LET inst == objects[instances[model_id]]
                        IN  IF ~ LW_is_running(inst) THEN "ValueError"
                            ELSE IF inst.runner = None THEN "ValueError"
                            ELSE IF inst.runner # "loaded" THEN "RuntimeError"
                            ELSE "invoked",
                   0, 0)
  /\ trans' = << >>
  /\ UNCHANGED << manager, appended, fetched, executor, answer, node_objects, run, shutdown, objects, instances, used_ports, next_port, handlers,
                  logs, events >>

\* LightweightModelManager.get_model
LW_get_model(model_id) ==
  IF model_id \in DOMAIN instances THEN << objects[instances[model_id]] >> ELSE Nothing

LightNext ==
  \/ ~ shutdown /\ \E n \in ModelNames, now \in Nows : LW_deploy_model(n, now)
  \/ \E o \in Objs : \/ LW_load_model_start(o, TRUE, None)
                       \/ \E e \in ExceptionMessages : LW_load_model_start(o, FALSE, e)
  \/ \E o \in Objs : \/ LW_load_model_tokenizer(o, TRUE, None)
                       \/ \E e \in ExceptionMessages : LW_load_model_tokenizer(o, FALSE, e)
  \/ \E o \in Objs : \/ LW_load_model_weights(o, TRUE, None)
                       \/ \E e \in ExceptionMessages : LW_load_model_weights(o, FALSE, e)
  \/ \E o \in Objs : LW_cancel_load(o)
  \/ ~ shutdown /\ \E id \in CallIds : LW_stop_model(id)
  \/ ~ shutdown /\ \E id \in CallIds : LW_remove_model(id)
  \/ ~ shutdown /\ \E id \in CallIds, stream \in BOOLEAN : LW_generate(id, stream)
  \/ LW_cleanup_all

\* ------------------------------------------------------- WorkflowExecutor
\* Node ids of a workflow definition.
NodeIds == { "n1", "n2", "n3" }

\* WorkflowExecutor.__init__.  A dict is its keys in insertion order and a
\* map: nodes is the key sequence of self.nodes (the layering reads nothing
\* else of a node), in_degree the key sequence and the map of self.in_degree;
\* adjacency is a defaultdict(list): an absent key reads as the empty list.
WorkflowExecutor ==
  [ nodes |-> << >>, edges |-> << >>, adjacency |-> EmptyMap,
    in_degree |-> [ keys |-> << >>, deg |-> EmptyMap ] ]

\* WorkflowNode.__init__: the fields execute_node assigns.  output is an
\* Optional[str]: Nothing, or << the string >>.  model_id and prompt_template
\* are never assigned after construction: NodeModel and NodeTemplate below.
WorkflowNode == [ output |-> Nothing, error |-> None, execution_time |-> 0 ]

\* No execute call has been made on the executor.  log is the history of the
\* call: << "start", node, prompt >> when execute_node is entered for a node,
\* << "finish", node >> when the await of its task returns.  calls counts the
\* execute calls made on the executor.
NotExecuting ==
  [ phase |-> "idle", user_input |-> << >>, layers |-> << >>, layer |-> 0,
    tasks |-> << >>, pos |-> 1, all_outputs |-> EmptyMap, log |-> << >>,
    result |-> Nothing, calls |-> 0 ]

\* the elements of a sequence
Range(q) == { q[i] : i \in 1..Len(q) }

\* d[k] = v on an insertion-ordered dict
DictSet(d, k, v) ==
  [ keys |-> IF k \in DOMAIN d.deg THEN d.keys ELSE Append(d.keys, k),
    deg  |-> MapPut(d.deg, k, v) ]

\* self.adjacency[k]
Adjacent(ex, k) == IF k \in DOMAIN ex.adjacency THEN ex.adjacency[k] ELSE << >>

add_node(ex, node_id) ==
  [ ex EXCEPT !.nodes = IF node_id \in Range(@) THEN @ ELSE Append(@, node_id),
              !.in_degree = IF node_id \in DOMAIN @.deg THEN @ ELSE DictSet(@, node_id, 0) ]

add_edge(ex, source, target) ==
  LET d1 == DictSet(ex.in_degree, target,
                    (IF target \in DOMAIN ex.in_degree.deg
                     THEN ex.in_degree.deg[target] ELSE 0) + 1)
      d2 == IF source \in DOMAIN d1.deg THEN d1 ELSE DictSet(d1, source, 0)
  IN  [ ex EXCEPT !.edges = Append(@, << source, target >>),
                  !.adjacency = MapPut(@, source, Append(Adjacent(ex, source), target)),
                  !.in_degree = d2 ]

\* A variant that also takes the keys with one edge still to be released.
ZeroDegree_or_one(keys, temp) == SelectSeq(keys, LAMBDA k : temp[k] \in { 0, 1 })

\* A variant that takes the first key of degree 0 only.
ZeroDegree_first_only(keys, temp) ==
  LET zero == SelectSeq(keys, LAMBDA k : temp[k] = 0)
  IN  IF zero = << >> THEN zero ELSE << zero[1] >>

\* [node_id for node_id, degree in temp_in_degree.items() if degree == 0]
ZeroDegree(keys, temp) == SelectSeq(keys, LAMBDA k : temp[k] = 0)

RECURSIVE ValidateNeighbors(_, _, _)
\* for neighbor in self.adjacency[current]: the in-degrees and the queue after
ValidateNeighbors(neighbors, temp, queue) ==
  IF neighbors = << >> THEN [ temp |-> temp, queue |-> queue ]
  ELSE LET nb == Head(neighbors)
           t == [temp EXCEPT ![nb] = @ - 1]
       IN  ValidateNeighbors(Tail(neighbors), t,
                             IF t[nb] = 0 THEN Append(queue, nb) ELSE queue)

RECURSIVE ValidateLoop(_, _, _, _)
\* while queue: the number of keys processed
ValidateLoop(ex, temp, queue, processed) ==
  IF queue = << >> THEN processed
  ELSE LET r == ValidateNeighbors(Adjacent(ex, Head(queue)), temp, Tail(queue))
       IN  ValidateLoop(ex, r.temp, r.queue, processed + 1)

validate_dag(ex) ==
  IF ex.nodes = << >>
  THEN [ valid |-> FALSE, error |-> "Workflow has no nodes" ]
  ELSE LET processed == ValidateLoop(ex, ex.in_degree.deg,
                                     ZeroDegree(ex.in_degree.keys, ex.in_degree.deg), 0)
       IN  IF processed # Len(ex.nodes)
           THEN [ valid |-> FALSE, error |-> "Workflow contains cycles (not a valid DAG)" ]
           ELSE [ valid |-> TRUE, error |-> None ]

\* A variant that releases each distinct neighbour once, however many edges
\* lead to it.
OrderNeighbors_once(neighbors, temp) ==
  [ k \in DOMAIN temp |->
      IF k \in Range(neighbors) /\ temp[k] > 0 THEN temp[k] - 1 ELSE temp[k] ]

RECURSIVE OrderNeighbors(_, _)
\* for neighbor in self.adjacency[node_id]: if temp_in_degree[neighbor] > 0: ...
OrderNeighbors(neighbors, temp) ==
  IF neighbors = << >> THEN temp
  ELSE OrderNeighbors(Tail(neighbors),
                      IF temp[Head(neighbors)] > 0
                      THEN [temp EXCEPT ![Head(neighbors)] = @ - 1] ELSE temp)

RECURSIVE OrderLayer(_, _, _)
\* for node_id in current_layer: mark it processed and release its neighbours
OrderLayer(ex, layer, temp) ==
  IF layer = << >> THEN temp
  ELSE OrderLayer(ex, Tail(layer),
                  OrderNeighbors(Adjacent(ex, Head(layer)),
                                 [temp EXCEPT ![Head(layer)] = -1]))

RECURSIVE OrderLoop(_, _, _)
\* while any(degree == 0 for degree in temp_in_degree.values())
OrderLoop(ex, temp, layers) ==
  LET current_layer == ZeroDegree(ex.in_degree.keys, temp)
  IN  IF current_layer = << >> THEN layers
      ELSE OrderLoop(ex, OrderLayer(ex, current_layer, temp), Append(layers, current_layer))

\* A variant that puts every key into one layer.
get_execution_order_one_layer(ex) ==
  IF ex.in_degree.keys = << >> THEN << >> ELSE << ex.in_degree.keys >>

get_execution_order(ex) == OrderLoop(ex, ex.in_degree.deg, << >>)

\* executor.add_node(node).  create_workflow_from_definition adds every node
\* before the first edge; add_node and add_edge are public, so any order of
\* the calls is allowed here.
Workflow_add_node(node_id) ==
  /\ executor' = add_node(executor, node_id)
  /\ node_objects' = MapPut(node_objects, node_id, WorkflowNode)
  /\ answer' = Nothing
  /\ ret' = Idle
  /\ trans' = << >>
  /\ UNCHANGED << manager, objects, instances, used_ports, next_port, handlers,
                  logs, events, shutdown, appended, fetched, run >>

\* executor.add_edge(edge); the endpoints are whatever ids the definition
\* names, added or not.
Workflow_add_edge(source, target) ==
  /\ Len(executor.edges) < MaxEdges
  /\ executor' = add_edge(executor, source, target)
  /\ answer' = Nothing
  /\ ret' = Idle
  /\ trans' = << >>
  /\ UNCHANGED << manager, objects, instances, used_ports, next_port, handlers,
                  logs, events, shutdown, appended, fetched, node_objects, run >>

\* executor.validate_dag() and executor.get_execution_order(), as the
\* playground router calls them on the executor it built.
Workflow_validate_dag ==
  /\ answer' = << [ op |-> "validate_dag", result |-> validate_dag(executor) ] >>
  /\ ret' = Idle
  /\ trans' = << >>
  /\ UNCHANGED << manager, executor, objects, instances, used_ports, next_port,
                  handlers, logs, events, shutdown, appended, fetched,
                  node_objects, run >>

Workflow_get_execution_order ==
  /\ answer' = << [ op |-> "get_execution_order",
                    result |-> get_execution_order(executor) ] >>
  /\ ret' = Idle
  /\ trans' = << >>
  /\ UNCHANGED << manager, executor, objects, instances, used_ports, next_port,
                  handlers, logs, events, shutdown, appended, fetched,
                  node_objects, run >>

FlowNext ==
  \/ \E n \in NodeIds : Workflow_add_node(n)
  \/ \E s \in NodeIds, t \in NodeIds : Workflow_add_edge(s, t)
  \/ Workflow_validate_dag
  \/ Workflow_get_execution_order

\* ------------------------------------------------ WorkflowExecutor.execute
\* A string is the sequence of its words; "{" and "}" are words of their own,
\* so that a token can be put together from pieces.
Token(name) == << "{", name, "}" >>

RECURSIVE str_replace(_, _, _)
\* s.replace(old, new) for a non-empty old: the occurrences of old from left
\* to right, none overlapping another.
str_replace(s, old, new) ==
  IF Len(s) < Len(old) THEN s
  ELSE IF SubSeq(s, 1, Len(old)) = old
       THEN new \o str_replace(SubSeq(s, Len(old) + 1, Len(s)), old, new)
       ELSE << Head(s) >> \o str_replace(Tail(s), old, new)

RECURSIVE str_strip(_)
\* s.strip(): a word " " is white space
str_strip(s) ==
  IF s = << >> THEN s
  ELSE IF Head(s) = " " THEN str_strip(Tail(s))
  ELSE IF s[Len(s)] = " " THEN str_strip(SubSeq(s, 1, Len(s) - 1))
  ELSE s

\* node_data["model_id"] of the workflow definitions: the id of a model the
\* lightweight manager deploys, and for n3 an id it never registers.
NodeModel(node_id) == IF node_id = "n3" THEN UnloggedId ELSE << "gpt2", 0 >>

\* node_data.get("prompt_template", "{input}") of the workflow definitions.
NodeTemplate(node_id) ==
  IF node_id = "n1" THEN Token("input")
  ELSE IF node_id = "n2" THEN << "Given" >> \o Token("n1") \o Token("input")
  ELSE Token("n1") \o Token("n2") \o Token("n3")

\* request.input
UserInputs == { << "dogs" >>, Token("n1") }

\* What manager.generate returns: the runner's response, already stripped.
GenerateTexts == { << >>, << "cats" >> }

\* str(e) of an exception raised while the runner generates
GenerateErrors == { "generation failed" }

RECURSIVE Dedupe(_)
\* the keys of a dict built from the key list q: first occurrences, in order
Dedupe(q) ==
  IF q = << >> THEN q
  ELSE LET d == Dedupe(SubSeq(q, 1, Len(q) - 1))
       IN  IF q[Len(q)] \in Range(d) THEN d ELSE Append(d, q[Len(q)])

\* [edge.source for edge in self.edges if edge.target == node_id]
Predecessors(ex, node_id) ==
  LET into == SelectSeq(ex.edges, LAMBDA e : e[2] = node_id)
  IN  [ i \in 1..Len(into) |-> into[i][1] ]

\* a variant that leaves out the predecessors without an output
PredecessorOutputs_only_recorded(ex, all_outputs, node_id) ==
  LET keys == SelectSeq(Dedupe(Predecessors(ex, node_id)),
                        LAMBDA k : k \in DOMAIN all_outputs)
  IN  [ i \in 1..Len(keys) |-> << keys[i], all_outputs[keys[i]] >> ]

\* {pred_id: all_outputs.get(pred_id, "") for pred_id in predecessors}, as
\* the items of the dict
PredecessorOutputs(ex, all_outputs, node_id) ==
  LET keys == Dedupe(Predecessors(ex, node_id))
  IN  [ i \in 1..Len(keys) |->
          << keys[i], IF keys[i] \in DOMAIN all_outputs THEN all_outputs[keys[i]] ELSE << >> >> ]

RECURSIVE ReplacePredecessors(_, _)
\* for pred_id, pred_output in predecessor_outputs.items(): prompt.replace(...)
ReplacePredecessors(prompt, items) ==
  IF items = << >> THEN prompt
  ELSE ReplacePredecessors(str_replace(prompt, Token(items[1][1]), items[1][2]),
                           Tail(items))

build_prompt(node_id, user_input, predecessor_outputs) ==
  ReplacePredecessors(str_replace(NodeTemplate(node_id), Token("input"), user_input),
                      predecessor_outputs)

\* execute_node from manager.get_model to the point where the runner starts
\* generating: the message of the exception raised on the way, or "invoked".
\* execute_node always asks LightweightModelManager, whose registry is empty
\* when the process runs the vLLM manager.
GenerateEntry(model_id) ==
  IF manager # "lightweight" \/ LW_get_model(model_id) = Nothing
  THEN "Model is not running"
  ELSE LET inst == LW_get_model(model_id)[1]
       IN  IF ~ LW_is_running(inst) THEN "Model is not running"
           ELSE IF inst.runner = None THEN "Model has no runner"
           ELSE IF inst.runner # "loaded" THEN "Model not loaded. Call load_model() first."
           ELSE "invoked"

\* execute_node's except branch: node.error = str(e), and the time measured
NodeFailed(nodes, node_id, e) ==
  [ nodes EXCEPT ![node_id] = [ @ EXCEPT !.error = e, !.execution_time = "measured" ] ]

\* node.output = output.strip(), and the time measured
NodeSucceeded(nodes, node_id, output) ==
  [ nodes EXCEPT ![node_id] =
      [ @ EXCEPT !.output = << str_strip(output) >>, !.execution_time = "measured" ] ]

\* execute after "await task": if node.output: all_outputs[node_id] = node.output
Awaited(st) ==
  LET node_id == st.run.tasks[st.run.pos][1]
      output == st.nodes[node_id].output
  IN  [ st EXCEPT !.run.pos = @ + 1,
                  !.run.log = Append(@, << "finish", node_id >>),
                  !.run.all_outputs =
                     IF output # Nothing /\ output[1] # << >>
                     THEN MapPut(@, node_id, output[1]) ELSE @ ]

\* a variant that reports failure when a node has an error
Results_fails_on_node_error(st) ==
  [ success |-> \A n \in DOMAIN st.nodes : st.nodes[n].error = None,
    error |-> None, layers |-> Len(st.run.layers), nodes |-> st.nodes ]

\* the result execute returns once every layer has run
Results(st) ==
  [ success |-> TRUE, error |-> None, layers |-> Len(st.run.layers),
    nodes |-> st.nodes ]

RECURSIVE Resume(_)
\* execute (lines 243-289) from where it stands to its next suspension, which
\* is inside the generate call of the task it awaits, or to its end.  A task
\* is a coroutine object: it starts to run when execute awaits it.  st is the
\* pair of execute's locals (run) and the node objects (nodes).
Resume(st) ==
  LET r == st.run
  IN  IF r.pos <= Len(r.tasks)
      THEN LET node_id == r.tasks[r.pos][1]
               prompt == build_prompt(node_id, r.user_input, r.tasks[r.pos][2])
               begun == [ st EXCEPT !.run.log = Append(@, << "start", node_id, prompt >>) ]
               entry == GenerateEntry(NodeModel(node_id))
           IN  IF entry = "invoked"
               THEN [ begun EXCEPT !.run.phase = "generating" ]
               ELSE Resume(Awaited([ begun EXCEPT
                                       !.nodes = NodeFailed(@, node_id, entry) ]))
      ELSE IF r.layer >= Len(r.layers)
      THEN [ st EXCEPT !.run.phase = "returned", !.run.result = << Results(st) >> ]
      ELSE LET layer == r.layers[r.layer + 1]
           IN  IF \E i \in 1..Len(layer) : layer[i] \notin DOMAIN st.nodes
               THEN [ st EXCEPT !.run.phase = "raised", !.run.layer = @ + 1,
                                !.run.tasks = << >>, !.run.pos = 1 ]
               ELSE Resume([ st EXCEPT
                      !.run.layer = @ + 1,
                      !.run.pos = 1,
                      !.run.tasks =
                         [ i \in 1..Len(layer) |->
                             << layer[i],
                                PredecessorOutputs(executor, r.all_outputs, layer[i]) >> ] ])

\* a variant of the test that lets a workflow with cycles through
not_is_valid_unless_cyclic(v) == v.error = "Workflow has no nodes"

\* execute: if not is_valid, for the pair v that validate_dag returned
not_is_valid(v) == ~ v.valid

\* execute(user_input) up to its first suspension: the validation, the layers
\* and the part of the loop that runs without suspending.  total_execution_time
\* of the result, a sum of clock readings, is left out.  The playground router
\* calls execute once on the executor it built.
execute(user_input) ==
  /\ LET v == validate_dag(executor)
         st == Resume([ run |-> [ NotExecuting EXCEPT
                                    !.phase = "running",
                                    !.user_input = user_input,
                                    !.layers = get_execution_order(executor),
                                    !.calls = run.calls + 1 ],
                        nodes |-> node_objects ])
     IN  IF not_is_valid(v)
         THEN /\ run' = [ NotExecuting EXCEPT
                            !.phase = "returned",
                            !.user_input = user_input,
                            !.calls = run.calls + 1,
                            !.result = << [ success |-> FALSE, error |-> v.error,
                                            layers |-> None, nodes |-> EmptyMap ] >> ]
              /\ UNCHANGED node_objects
         ELSE /\ run' = st.run
              /\ node_objects' = st.nodes
  /\ answer' = Nothing
  /\ ret' = Idle
  /\ trans' = << >>
  /\ UNCHANGED << manager, executor, objects, instances, used_ports, next_port,
                  handlers, logs, events, shutdown, appended, fetched >>

\* The first execute call on an executor.
Workflow_execute(user_input) ==
  /\ run.phase = "idle"
  /\ execute(user_input)

\* A later execute call on the same executor, after the earlier call has
\* returned: all_outputs and the loop state are locals of the new call, the
\* WorkflowNode objects in self.nodes are the ones the earlier call assigned.
Workflow_execute_again(user_input) ==
  /\ run.phase = "returned"
  /\ run.calls < MaxExecutes
  /\ execute(user_input)

\* a variant that marks the instance FAILED when its generate call raised
InstancesAfterGenerate_marks_failed(objs, model_id, failed) ==
  IF failed /\ model_id \in DOMAIN instances
  THEN [ objs EXCEPT ![instances[model_id]].status = "FAILED" ]
  ELSE objs

\* The instance objects after a generate call on model_id has returned
\* (failed = FALSE) or raised: LightweightModelManager.generate and
\* execute_node read instance.status and instance.runner and assign no
\* attribute of an instance.
InstancesAfterGenerate(objs, model_id, failed) == objs

\* The runner's generate call of the awaited node returns text, and execute
\* runs on to its next suspension.
Generate_return(text) ==
  /\ run.phase = "generating"
  /\ LET node_id == run.tasks[run.pos][1]
         st == Resume(Awaited([ run |-> [ run EXCEPT !.phase = "running" ],
                                nodes |-> NodeSucceeded(node_objects, node_id, text) ]))
     IN  /\ run' = st.run
         /\ node_objects' = st.nodes
         /\ objects' = InstancesAfterGenerate(objects, NodeModel(node_id), FALSE)
  /\ ret' = Idle
  /\ trans' = << >>
  /\ UNCHANGED << manager, executor, answer, instances, used_ports,
                  next_port, handlers, logs, events, shutdown, appended, fetched >>

\* The runner's generate call of the awaited node raises an exception with
\* str(e) = e.
Generate_raise(e) ==
  /\ run.phase = "generating"
  /\ LET node_id == run.tasks[run.pos][1]
         st == Resume(Awaited([ run |-> [ run EXCEPT !.phase = "running" ],
                                nodes |-> NodeFailed(node_objects, node_id, e) ]))
     IN  /\ run' = st.run
         /\ node_objects' = st.nodes
         /\ objects' = InstancesAfterGenerate(objects, NodeModel(node_id), TRUE)
  /\ ret' = Idle
  /\ trans' = << >>
  /\ UNCHANGED << manager, executor, answer, instances, used_ports,
                  next_port, handlers, logs, events, shutdown, appended, fetched >>

\* The node lists and edge lists of the workflow definitions.
NodeLists ==
  { << >>, << "n1" >>, << "n1", "n2" >>, << "n1", "n2", "n3" >> }

EdgeLists ==
  UNION { [ 1..k -> NodeIds \X NodeIds ] : k \in 0..MaxRunEdges }

RECURSIVE AddNodes(_, _)
AddNodes(ex, node_list) ==
  IF node_list = << >> THEN ex
  ELSE AddNodes(add_node(ex, Head(node_list)), Tail(node_list))

RECURSIVE AddEdges(_, _)
AddEdges(ex, edge_list) ==
  IF edge_list = << >> THEN ex
  ELSE AddEdges(add_edge(ex, Head(edge_list)[1], Head(edge_list)[2]), Tail(edge_list))

\* create_workflow_from_definition: every node of the definition, then every
\* edge.  The playground router builds one executor for one request.
create_workflow_from_definition(node_list, edge_list) ==
  AddEdges(AddNodes(WorkflowExecutor, node_list), edge_list)

Workflow_create(node_list, edge_list) ==
  /\ executor = WorkflowExecutor
  /\ run.phase = "idle"
  /\ executor' = create_workflow_from_definition(node_list, edge_list)
  /\ node_objects' = [ n \in Range(node_list) |-> WorkflowNode ]
  /\ answer' = Nothing
  /\ ret' = Idle
  /\ trans' = << >>
  /\ UNCHANGED << manager, objects, instances, used_ports, next_port, handlers,
                  logs, events, shutdown, appended, fetched, run >>

\* The executor and the lightweight manager it asks: a workflow is built and
\* executed while the operator deploys one model, which loads, and stops it.
RunNext ==
  \/ /\ executor = WorkflowExecutor
     /\ \E node_list \in NodeLists, edge_list \in EdgeLists :
          Workflow_create(node_list, edge_list)
  \/ \E user_input \in UserInputs : Workflow_execute(user_input)
  \/ \E text \in GenerateTexts : Generate_return(text)
  \/ \E e \in GenerateErrors : Generate_raise(e)
  \/ objects = << >> /\ LW_deploy_model(<< "gpt2" >>, << 0, 0 >>)
  \/ \E o \in Objs : LW_load_model_start(o, TRUE, None)
  \/ \E o \in Objs : LW_load_model_tokenizer(o, TRUE, None)
  \/ \E o \in Objs : LW_load_model_weights(o, TRUE, None)
  \/ LW_stop_model(<< "gpt2", 0 >>)

\* As RunNext, with further execute calls on the executor that was built.
RerunNext ==
  \/ RunNext
  \/ \E user_input \in UserInputs : Workflow_execute_again(user_input)

\* routers/models.py picks the manager class once, from USE_LIGHTWEIGHT_MANAGER.
Init ==
  /\ manager \in { "vllm", "lightweight" }
  /\ objects = << >>
  /\ instances = EmptyMap
  /\ used_ports = {}
  /\ next_port = IF manager = "vllm" THEN VLLM_BASE_PORT ELSE LIGHT_BASE_PORT
  /\ handlers = EmptyMap
  /\ logs = EmptyMap
  /\ events = 0
  /\ shutdown = FALSE
  /\ appended = EmptyMap
  /\ fetched = Nothing
  /\ executor = WorkflowExecutor
  /\ answer = Nothing
  /\ node_objects = EmptyMap
  /\ run = NotExecuting
  /\ ret = Idle
  /\ trans = << >>

Next == VllmNext \/ LightNext

Spec == Init /\ [][Next]_vars

\* The process with USE_LIGHTWEIGHT_MANAGER=false, and with =true.
InitVllm == Init /\ manager = "vllm"

SpecVllm == InitVllm /\ [][VllmNext]_vars

InitLight == Init /\ manager = "lightweight"

SpecLight == InitLight /\ [][LightNext]_vars

\* The workflow executor alone: a workflow is built and then asked about.
SpecFlow == InitLight /\ [][FlowNext]_vars

\* The workflow executor under execute calls, with the lightweight manager.
SpecRun == InitLight /\ [][RunNext]_vars
SpecRerun == InitLight /\ [][RerunNext]_vars

\* The log store alone, under a client that appends and reads.
SpecLog == InitLight /\ [][LogNext]_vars

\* A step of the background task of instance object o: _start_vllm_process,
\* or _load_model up to its next suspension.
BackgroundTask(o) ==
  /\ o \in Objs
  /\ \/ \E spawned \in BOOLEAN : MM_start_vllm_process(o, spawned)
     \/ LW_load_model_start(o, TRUE, None)
     \/ \E e \in ExceptionMessages : LW_load_model_start(o, FALSE, e)
     \/ LW_load_model_tokenizer(o, TRUE, None)
     \/ \E e \in ExceptionMessages : LW_load_model_tokenizer(o, FALSE, e)
     \/ LW_load_model_weights(o, TRUE, None)
     \/ \E e \in ExceptionMessages : LW_load_model_weights(o, FALSE, e)

\* Deploys, the background tasks and the stop and remove calls of either
\* manager while the event loop runs: no task is cancelled.
LiveNext ==
  \/ Len(objects) < MaxLiveInstances /\ \E n \in ModelNames : MM_deploy_model(n, 0)
  \/ Len(objects) < MaxLiveInstances /\ \E n \in ModelNames : LW_deploy_model(n, << 0, 0 >>)
  \/ \E o \in Objs : BackgroundTask(o)
  \/ \E id \in CallIds, out \in StopOutcomes : MM_stop_model(id, out)
  \/ \E id \in CallIds, out \in StopOutcomes : MM_remove_model(id, out)
  \/ \E id \in CallIds : LW_stop_model(id)
  \/ \E id \in CallIds : LW_remove_model(id)

\* asyncio.create_task puts the task on the ready queue of the event loop,
\* which runs every ready callback in turn, and run_in_executor resumes the
\* task when the load has returned or raised: a background task that can
\* take a step takes it.
TaskFairness == \A o \in 1..MaxLiveInstances : WF_vars(BackgroundTask(o))

SpecLive == Init /\ [][LiveNext]_vars /\ TaskFairness

\* ------------------------------------------------------------------ claims
\* The instance the last call named, when it is registered after the call.
Target == objects[instances[ret.id]]

MaxInstances == IF manager = "vllm" THEN VLLM_MAX_INSTANCES ELSE LIGHT_MAX_INSTANCES

Terminal == { "STOPPED", "FAILED" }

\* The transitions of the state machine of the specification.
SpecifiedTransitions ==
  { << "INITIALIZING", "STARTING" >>, << "STARTING", "RUNNING" >>,
    << "RUNNING", "STOPPING" >>, << "STOPPING", "STOPPED" >>,
    << "STARTING", "FAILED" >>, << "RUNNING", "ERROR" >>, << "STARTING", "ERROR" >> }
  \cup { << st, "STOPPING" >> : st \in { "INITIALIZING", "STARTING", "RUNNING", "ERROR" } }

\* C1: the port _allocate_port returns to a deploy_model call of ModelManager
\* is not in _used_ports at the moment of the call (and is in it afterwards),
\* so a port that is held is never granted a second time.
C1_AllocatedPortWasFree ==
  [][ (ret'.op = "deploy" /\ ret'.port # 0)
        => (ret'.port \notin used_ports /\ ret'.port \in used_ports') ]_vars

\* C1 witness: a deploy asked for a port that was held and was given another
\* one, while two ports are held.
C1_Witness ==
  /\ manager = "vllm"
  /\ ret.op = "deploy" /\ ret.result = "ok"
  /\ ret.preferred # 0 /\ ret.port # ret.preferred
  /\ ret.preferred \in used_ports
  /\ Cardinality(used_ports) >= 2

\* C2 (as stated): every status change of an instance is one of the specified
\* transitions.
C2_OnlySpecifiedTransitions ==
  \A i \in 1..Len(trans) : trans[i] \in SpecifiedTransitions

\* C3 (as stated): STOPPED and FAILED are terminal: no status change starts
\* from STOPPED or FAILED.
C3_TerminalStatusesAreFinal ==
  \A i \in 1..Len(trans) : trans[i][1] \notin Terminal

\* C4 (as stated): when stop_model of ModelManager returns success for a
\* registered instance, its status is STOPPED and its port is not held.
C4_StopSuccessReleasesPort ==
  (manager = "vllm" /\ ret.op = "stop" /\ ret.result = "True")
    => (Target.status = "STOPPED" /\ Target.port \notin used_ports)

\* C5 (as stated): two stop_model calls in a row on a registered instance both
\* return success and leave the status STOPPED.
C5_StopIsIdempotent ==
  [][ (ret.op = "stop" /\ ret'.op = "stop" /\ ret'.id = ret.id
         /\ ret.id \in DOMAIN instances)
        => (ret.result = "True" /\ ret'.result = "True"
              /\ objects'[instances[ret.id]].status = "STOPPED") ]_vars

\* C6 (as stated): after stop_model has returned, whatever it returned, the
\* status of the instance is not STOPPING.
C6_NeverLeftStopping ==
  (ret.op = "stop" /\ ret.id \in DOMAIN instances) => Target.status # "STOPPING"

\* C7 (as stated): after remove_model(id) of LightweightModelManager succeeds,
\* get_model(id) returns nothing and the log store returns no entry for id.
C7_RemoveDropsInstanceAndLogs ==
  (manager = "lightweight" /\ ret.op = "remove" /\ ret.result = "True")
    => (LW_get_model(ret.id) = Nothing /\ get_logs(logs, ret.id, max_logs_per_model) = << >>)

\* C8: remove_model on an id that is not registered returns False and changes
\* nothing; right after a successful remove_model(id) the id is not registered,
\* so the second of two remove_model(id) calls in a row returns False.
C8_RemoveUnknownFails ==
  [][ /\ (ret'.op = "remove" /\ ret'.id \notin DOMAIN instances)
          => (ret'.result = "False"
                /\ UNCHANGED << objects, instances, used_ports, next_port, handlers, logs >>)
      /\ (ret'.op = "remove" /\ ret'.result = "True") => ret'.id \notin DOMAIN instances'
      /\ (ret.op = "remove" /\ ret'.op = "remove" /\ ret'.id = ret.id)
          => ret'.result = "False" ]_vars

\* C8 witness: remove_model has just failed on the id of an instance that
\* was deployed and removed before, while another instance is registered.
C8_Witness ==
  /\ ret.op = "remove" /\ ret.result = "False"
  /\ \E o \in Objs : objects[o].model_id = ret.id
  /\ ret.id \notin DOMAIN instances
  /\ DOMAIN instances # {}

\* C9: the registry never holds more instances than the maximum, and a
\* deploy_model call made while it holds the maximum fails and inserts nothing.
C9_InstanceLimit ==
  [][ /\ Cardinality(DOMAIN instances') <= MaxInstances
      /\ (ret'.op = "deploy" /\ Cardinality(DOMAIN instances) >= MaxInstances)
          => (ret'.result = "limit" /\ UNCHANGED << objects, instances >>) ]_vars

\* C9 witness: a deploy_model call has just failed on the limit, the
\* registry of LightweightModelManager holding 3 instances.
C9_Witness ==
  /\ manager = "lightweight"
  /\ ret.op = "deploy" /\ ret.result = "limit"
  /\ Cardinality(DOMAIN instances) = LIGHT_MAX_INSTANCES

\* C10 (as stated): a deploy_model call that generates the id of a
\* registered instance fails with the duplicate-id error and leaves the
\* registry as it was.
C10_DeployNeverOverwrites ==
  [][ (ret'.op = "deploy" /\ ret'.id \in DOMAIN instances)
        => (ret'.result = "duplicate" /\ instances' = instances) ]_vars

\* C11 (as stated): in ModelManager no two registered instances that are not
\* STOPPED have the same port, and the port of every registered instance that
\* is not STOPPED is in the held set.
C11_PortExclusivity ==
  manager = "vllm" =>
    \A a \in DOMAIN instances :
      objects[instances[a]].status # "STOPPED" =>
        /\ objects[instances[a]].port \in used_ports
        /\ \A b \in DOMAIN instances \ {a} :
             objects[instances[b]].status # "STOPPED"
               => objects[instances[b]].port # objects[instances[a]].port

\* C12: generate and generate_stream on a registered instance whose status is
\* not RUNNING raise the manager's error before the runner is touched, and
\* change no instance (so the status stays what it was).
C12_GenerateNeedsRunning ==
  [][ ( /\ ret'.op \in { "generate", "generate_stream" }
        /\ ret'.id \in DOMAIN instances
        /\ objects[instances[ret'.id]].status # "RUNNING" )
        => (ret'.result = "ValueError" /\ objects' = objects) ]_vars

\* C12 witness: generate_stream has just failed on an instance that was
\* loaded and then stopped.
C12_Witness ==
  /\ ret.op = "generate_stream" /\ ret.result = "ValueError"
  /\ ret.id \in DOMAIN instances
  /\ Target.status = "STOPPED" /\ Target.runner = "deleted"

\* C13: deploy_model returns with the new instance registered, its status
\* INITIALIZING, no start time, and its background task only scheduled; a start
\* time is set only by a step of that task, the step in which it assigns
\* STARTING, never by the step of an API call.
C13_DeployReturnsBeforeStart ==
  [][ /\ (ret'.op = "deploy" /\ ret'.result = "ok")
          => ( /\ ret'.id \in DOMAIN instances'
               /\ objects'[instances'[ret'.id]].status = "INITIALIZING"
               /\ objects'[instances'[ret'.id]].start_time = None
               /\ objects'[instances'[ret'.id]].task = "scheduled" )
      /\ \A o \in Objs :
           (objects[o].start_time = None /\ objects'[o].start_time # None)
             => ( /\ ret' = Idle
                  /\ objects[o].task = "scheduled" /\ objects'[o].task # "scheduled"
                  /\ Len(trans') > 0 /\ trans'[1][2] = "STARTING" ) ]_vars

\* C13 witness: deploy_model has just returned an INITIALIZING instance while
\* an instance deployed earlier is already RUNNING.
C13_Witness ==
  /\ ret.op = "deploy" /\ ret.result = "ok"
  /\ Target.status = "INITIALIZING" /\ Target.start_time = None
  /\ \E o \in Objs : objects[o].status = "RUNNING" /\ objects[o].start_time # None

\* C14 (as stated): at every reachable state an instance whose status is
\* FAILED has a non-empty error message.
C14_FailedHasErrorMessage ==
  \A o \in Objs :
    objects[o].status = "FAILED" => objects[o].error_message \notin { None, "" }

\* C15 (as stated): the step in which a _load_model task is cancelled while it
\* awaits the backend load leaves the instance with status FAILED.
C15_CancelledLoadFails ==
  [][ \A o \in Objs :
        (objects[o].task \in { "tokenizer", "weights" } /\ objects'[o].task = "cancelled")
          => objects'[o].status = "FAILED" ]_vars

\* C16 (as stated): an instance of ModelManager is RUNNING only when a
\* readiness marker line has been read from its own log stream.
C16_RunningOnlyAfterReadiness ==
  manager = "vllm" =>
    \A o \in Objs :
      objects[o].status = "RUNNING"
        => \E i \in 1..Len(objects[o].log_buffer) : objects[o].log_buffer[i] = "ready"

\* C17 (as stated): once cleanup_all has completed, every instance in the
\* registry has status STOPPED, and stays STOPPED.
C17_CleanupStopsEverything ==
  shutdown => \A id \in DOMAIN instances : objects[instances[id]].status = "STOPPED"

\* min(a, b)
Min(a, b) == IF a <= b THEN a ELSE b

\* C18: after the K-th add_log call for an id, the buffer of the id holds
\* exactly min(K, 500) entries, the most recent min(K, 500) entries appended,
\* in the order they were appended, and the buffers of the other ids (and
\* their absence) are as they were before the call.
C18_LogStoreCapacityFIFO ==
  [][ \A id \in LogIds :
        appended' # appended /\ History(id)' # History(id) =>
          LET K == Len(History(id)')
              n == Min(K, max_logs_per_model)
          IN  /\ id \in DOMAIN logs'
              /\ Len(logs'[id]) = n
              /\ \A i \in 1..n : logs'[id][i] = History(id)'[K - n + i]
              /\ \A other \in (LogIds \cup { UnloggedId }) \ { id } :
                   /\ (other \in DOMAIN logs') = (other \in DOMAIN logs)
                   /\ other \in DOMAIN logs => logs'[other] = logs[other] ]_vars

\* C18 witness: the buffer of an id has overflowed (more than 500 add_log
\* calls) while another id has a buffer of its own.
C18_Witness ==
  /\ Len(History(<< "gpt2", 0 >>)) > max_logs_per_model
  /\ Len(logs[<< "gpt2", 0 >>]) = max_logs_per_model
  /\ Len(History(<< "gpt2", 1 >>)) > 0

\* C19: get_logs(id, n) returns the last n entries of the buffer of id, in
\* insertion order, when n > 0 and the buffer holds at least n; the whole
\* buffer when it holds fewer than n or when n <= 0; the empty list when id
\* has no buffer; and it leaves the store as it was (no buffer is created).
C19_GetLogsTail ==
  [][ fetched' # Nothing =>
        LET f == fetched'[1]
            buf == IF f.id \in DOMAIN logs THEN logs[f.id] ELSE << >>
        IN  /\ logs' = logs
            /\ f.id \notin DOMAIN logs => f.result = << >>
            /\ f.lines <= 0 => f.result = buf
            /\ (f.lines > 0 /\ Len(buf) < f.lines) => f.result = buf
            /\ (f.lines > 0 /\ Len(buf) >= f.lines) =>
                 /\ Len(f.result) = f.lines
                 /\ \A i \in 1..f.lines : f.result[i] = buf[Len(buf) - f.lines + i] ]_vars

\* C19 witness: get_logs(id, 2) has just returned the last two entries of a
\* full buffer.
C19_Witness ==
  /\ fetched # Nothing
  /\ fetched[1].lines = 2 /\ Len(fetched[1].result) = 2
  /\ fetched[1].id \in DOMAIN logs
  /\ Len(logs[fetched[1].id]) = max_logs_per_model
  /\ fetched[1].result[2] = logs[fetched[1].id][max_logs_per_model]

\* Every edge of the workflow names nodes that were added.
EdgesExist == \A e \in Range(executor.edges) : e[1] \in Range(executor.nodes) /\ e[2] \in Range(executor.nodes)

\* The workflow's edges admit a ranking of its nodes that every edge ascends:
\* the graph is acyclic.
Acyclic ==
  \E rank \in [ Range(executor.nodes) -> 1..Cardinality(NodeIds) ] :
    \A e \in Range(executor.edges) :
      (e[1] \in DOMAIN rank /\ e[2] \in DOMAIN rank) => rank[e[1]] < rank[e[2]]

\* The places of node n in the layers.
Places(layers, n) ==
  { p \in (1..Len(layers)) \X (1..Cardinality(NodeIds)) :
      p[2] <= Len(layers[p[1]]) /\ layers[p[1]][p[2]] = n }

\* C20: on an acyclic workflow with at least one node whose edges all name
\* existing nodes (several edges into one target and duplicate edges
\* included), validate_dag answers valid and get_execution_order answers
\* layers that partition the node set: no layer is empty, every layer holds
\* nodes only, and every node stands at exactly one place.
C20_DagLayersPartitionNodes ==
  (answer # Nothing /\ executor.nodes # << >> /\ EdgesExist /\ Acyclic) =>
    /\ answer[1].op = "validate_dag" =>
         answer[1].result = [ valid |-> TRUE, error |-> None ]
    /\ answer[1].op = "get_execution_order" =>
         LET layers == answer[1].result
         IN  /\ \A i \in 1..Len(layers) :
                  layers[i] # << >> /\ Range(layers[i]) \subseteq Range(executor.nodes)
             /\ \A n \in Range(executor.nodes) : Cardinality(Places(layers, n)) = 1

\* get_execution_order has answered for an acyclic workflow of three nodes
\* with a duplicate edge and a second source into the same target, and the
\* answer has more than one layer.
C20_Witness ==
  /\ answer # Nothing
  /\ answer[1].op = "get_execution_order"
  /\ Len(answer[1].result) >= 2
  /\ Len(executor.nodes) = 3
  /\ EdgesExist
  /\ Acyclic
  /\ \E i, j \in 1..Len(executor.edges) : i # j /\ executor.edges[i] = executor.edges[j]
  /\ \E i, j \in 1..Len(executor.edges) :
       executor.edges[i][1] # executor.edges[j][1] /\ executor.edges[i][2] = executor.edges[j][2]

\* C21: on a workflow with a cycle among its nodes (a self-loop included,
\* whatever else the workflow contains), validate_dag answers invalid with
\* the cycle reason, and the layers of get_execution_order leave out a node.
C21_CycleIsInvalid ==
  (answer # Nothing /\ ~ Acyclic) =>
    /\ answer[1].op = "validate_dag" =>
         answer[1].result =
           [ valid |-> FALSE, error |-> "Workflow contains cycles (not a valid DAG)" ]
    /\ answer[1].op = "get_execution_order" =>
         \E n \in Range(executor.nodes) : Places(answer[1].result, n) = {}

\* C22: an edge whose source or target is not a node is a validation error,
\* never a runtime failure: execute on a workflow with such an edge returns
\* success = false (validate_dag, which execute calls first, answers invalid)
\* and does not raise.
C22_UnresolvedEdgeIsInvalid ==
  (run.phase # "idle" /\ ~ EdgesExist) =>
    /\ run.phase = "returned"
    /\ run.result[1].success = FALSE

\* C23: execute on a workflow that fails validation (no nodes, or a cycle)
\* returns success = false with the validation error and an empty node-result
\* map; no node is started, and no node has output, error or execution_time
\* set.
C23_InvalidWorkflowIsNotExecuted ==
  (run.phase # "idle" /\ ~ validate_dag(executor).valid) =>
    /\ run.phase = "returned"
    /\ run.result = << [ success |-> FALSE, error |-> validate_dag(executor).error,
                         layers |-> None, nodes |-> EmptyMap ] >>
    /\ run.result[1].error \in { "Workflow has no nodes",
                                 "Workflow contains cycles (not a valid DAG)" }
    /\ run.log = << >>
    /\ \A n \in DOMAIN node_objects : node_objects[n] = WorkflowNode

\* execute has returned the cycle error for a workflow of two nodes on a
\* cycle, while the model of its first node is RUNNING.
C23_Witness ==
  /\ run.phase = "returned"
  /\ run.result[1].success = FALSE
  /\ run.result[1].error = "Workflow contains cycles (not a valid DAG)"
  /\ executor.edges = << << "n1", "n2" >>, << "n2", "n1" >> >>
  /\ DOMAIN node_objects = { "n1", "n2" }
  /\ GenerateEntry(NodeModel("n1")) = "invoked"

\* The places of the log where node n finished, and the start events.
Finishes(n) == { j \in 1..Len(run.log) : run.log[j] = << "finish", n >> }

StartEvents == { i \in 1..Len(run.log) : run.log[i][1] = "start" }

\* C24: layer barrier.  Whenever a node was started (its prompt built), every
\* node of the layer before its own had finished by then, with success or
\* failure, and so had every predecessor of the node.
C24_LayerBarrier ==
  \A i \in StartEvents :
    LET n == run.log[i][2]
    IN  /\ \A k \in 2..Len(run.layers) :
             n \in Range(run.layers[k]) =>
               \A m \in Range(run.layers[k - 1]) : \E j \in Finishes(m) : j < i
        /\ \A e \in Range(executor.edges) :
             e[2] = n => \E j \in Finishes(e[1]) : j < i

\* The second node of a chain is generating, after the generate call of the
\* first returned text.
C24_Witness ==
  /\ run.phase = "generating"
  /\ executor.edges = << << "n1", "n2" >> >>
  /\ executor.nodes = << "n1", "n2" >>
  /\ run.layers = << << "n1" >>, << "n2" >> >>
  /\ run.tasks[run.pos][1] = "n2"
  /\ node_objects["n1"].output = << << "cats" >> >>

\* C25: the nodes of a layer run concurrently: when a node finishes, every
\* node of its layer has been started.
C25_LayerRunsConcurrently ==
  \A j \in 1..Len(run.log) :
    run.log[j][1] = "finish" =>
      \A k \in 1..Len(run.layers) :
        run.log[j][2] \in Range(run.layers[k]) =>
          \A m \in Range(run.layers[k]) :
            \E i \in StartEvents : i < j /\ run.log[i][2] = m

\* A workflow that is valid: it has a node, its edges name nodes, and it has
\* no cycle.
ValidWorkflow == executor.nodes # << >> /\ EdgesExist /\ Acyclic

\* The places of the log where node n was started.
Starts(n) == { i \in StartEvents : run.log[i][2] = n }

\* C26: partial-failure tolerance.  On a valid workflow execute does not
\* raise and starts no node twice; when it has returned, every node was
\* started once and finished once, whichever nodes failed, and the result
\* has success = true, the number of layers and one record for every node.
C26_PartialFailureTolerance ==
  (ValidWorkflow /\ run.phase # "idle") =>
    /\ run.phase # "raised"
    /\ \A n \in Range(executor.nodes) : Cardinality(Starts(n)) <= 1
    /\ run.phase = "returned" =>
         /\ \A n \in Range(executor.nodes) :
              Cardinality(Starts(n)) = 1 /\ Cardinality(Finishes(n)) = 1
         /\ run.result[1].success = TRUE
         /\ run.result[1].layers = Len(get_execution_order(executor))
         /\ DOMAIN run.result[1].nodes = Range(executor.nodes)
         /\ \A n \in Range(executor.nodes) : run.result[1].nodes[n] = node_objects[n]

\* execute has returned for the chain n1 -> n2 where the generate call of n1
\* raised and the generate call of n2 returned text.
C26_Witness ==
  /\ run.phase = "returned"
  /\ executor.nodes = << "n1", "n2" >>
  /\ executor.edges = << << "n1", "n2" >> >>
  /\ node_objects["n1"].error = "generation failed"
  /\ node_objects["n1"].output = Nothing
  /\ node_objects["n2"].output = << << "cats" >> >>
  /\ run.result[1].success = TRUE

\* The output recorded on node p, the empty string when there is none.
RecordedOutput(p) ==
  IF node_objects[p].output = Nothing THEN << >> ELSE node_objects[p].output[1]

RECURSIVE Substitute(_, _)
\* The string s with every token whose name is in the domain of subst
\* replaced by what subst gives for the name, in one pass over s: what is put
\* in is not looked at again.
Substitute(s, subst) ==
  IF s = << >> THEN s
  ELSE IF Len(s) >= 3 /\ s[1] = "{" /\ s[3] = "}" /\ s[2] \in DOMAIN subst
       THEN subst[s[2]] \o Substitute(SubSeq(s, 4, Len(s)), subst)
       ELSE << Head(s) >> \o Substitute(Tail(s), subst)

\* What the tokens of the template of node n stand for: {input} for the user
\* input, {p} for the recorded output of predecessor p.
Substitution(n) ==
  [ name \in { "input" } \cup { e[1] : e \in { d \in Range(executor.edges) : d[2] = n } } |->
      IF name = "input" THEN run.user_input ELSE RecordedOutput(name) ]

\* C27: the prompt a node is started with is its template with every {input}
\* replaced by the user input and every {p} of a predecessor p replaced by
\* p's recorded output; tokens that name other nodes stay as they are.
C27_PromptIsTemplateSubstituted ==
  \A i \in StartEvents :
    run.log[i][3] = Substitute(NodeTemplate(run.log[i][2]), Substitution(run.log[i][2]))

\* The string t occurs in the string s.
Occurs(s, t) == \E k \in 1..Len(s) : k + Len(t) - 1 <= Len(s) /\ SubSeq(s, k, k + Len(t) - 1) = t

\* C28: a predecessor without output (its generate failed, its model was not
\* running, or it returned empty text) stands for the empty string: the
\* dependent node is started all the same once execute has returned, and the
\* prompt it is started with has the predecessor's token taken out.
C28_MissingOutputIsEmptyString ==
  \A e \in Range(executor.edges) :
    (ValidWorkflow /\ RecordedOutput(e[1]) = << >>) =>
      /\ run.phase = "returned" => Starts(e[2]) # {}
      /\ \A i \in Starts(e[2]) :
           /\ ~ Occurs(run.log[i][3], Token(e[1]))
           /\ run.user_input = << "dogs" >> =>
                run.log[i][3] = Substitute(NodeTemplate(e[2]), Substitution(e[2]))

\* execute has returned for the chain n1 -> n2: n1's generate returned the
\* empty text, and n2 was started with "Given dogs" and has an output.
C28_Witness ==
  /\ run.phase = "returned"
  /\ executor.nodes = << "n1", "n2" >>
  /\ executor.edges = << << "n1", "n2" >> >>
  /\ node_objects["n1"] = [ output |-> << << >> >>, error |-> None, execution_time |-> "measured" ]
  /\ \E i \in Starts("n2") : run.log[i][3] = << "Given", "dogs" >>
  /\ node_objects["n2"].output = << << "cats" >> >>

\* C29: the workflow executor never mutates instance state: a step of an
\* execute call (one that changes execute's locals or a node object) leaves
\* every instance object, the registry, the ports and the embedding handlers
\* as they were.
C29_ExecutorLeavesInstancesAlone ==
  [][ (run' # run \/ node_objects' # node_objects) =>
        UNCHANGED << objects, instances, used_ports, next_port, handlers, logs >> ]_vars

\* execute has returned after the generate call of n1 raised, and the
\* instance of n1's model is RUNNING.
C29_Witness ==
  /\ run.phase = "returned"
  /\ "n1" \in DOMAIN node_objects
  /\ node_objects["n1"].error = "generation failed"
  /\ NodeModel("n1") \in DOMAIN instances
  /\ objects[instances[NodeModel("n1")]].status = "RUNNING"

\* C30: in ModelManager the allocation cursor never decreases, and an
\* automatic allocation (a deploy without a preferred port) returns a port at
\* or above the cursor and leaves the cursor above that port: the automatic
\* ports are strictly increasing, and a port released below the cursor is
\* not issued again by an automatic allocation.
C30_CursorIsMonotone ==
  [][ manager = "vllm" =>
        /\ next_port' >= next_port
        /\ (ret'.op = "deploy" /\ ret'.port # 0 /\ ret'.preferred = 0) =>
             /\ ret'.port >= next_port
             /\ next_port' = ret'.port + 1
             /\ ret'.port \notin used_ports ]_vars

\* An automatic allocation has just returned 8001 while 8000, issued before
\* and released since, is free.
C30_Witness ==
  /\ manager = "vllm"
  /\ ret.op = "deploy"
  /\ ret.preferred = 0
  /\ ret.port = VLLM_BASE_PORT + 1
  /\ VLLM_BASE_PORT \notin used_ports
  /\ next_port = VLLM_BASE_PORT + 2

\* C31: _allocate_port with a preferred port.  When the preferred port is not
\* held, exactly that port is returned and marked held, and the cursor stays
\* where it was.  When it is held, the call returns another port: the first
\* free port at or above the cursor, which is then marked held.
C31_PreferredPortGrant ==
  [][ (manager = "vllm" /\ ret'.op = "deploy" /\ ret'.port # 0 /\ ret'.preferred # 0) =>
        /\ used_ports' = used_ports \cup { ret'.port }
        /\ ret'.preferred \notin used_ports =>
             /\ ret'.port = ret'.preferred
             /\ next_port' = next_port
        /\ ret'.preferred \in used_ports =>
             /\ ret'.port # ret'.preferred
             /\ ret'.port \notin used_ports
             /\ ret'.port >= next_port
             /\ \A q \in next_port..(ret'.port - 1) : q \in used_ports ]_vars

\* A deploy that preferred the held port 8000 was given 8001.
C31_Witness ==
  /\ manager = "vllm"
  /\ ret.op = "deploy"
  /\ ret.preferred = VLLM_BASE_PORT
  /\ ret.port = VLLM_BASE_PORT + 1
  /\ { VLLM_BASE_PORT, VLLM_BASE_PORT + 1 } \subseteq used_ports

\* The index of the layer that holds node n.
LayerIndex(layers, n) == CHOOSE k \in 1..Len(layers) : n \in Range(layers[k])

\* The nodes with an edge into n.
PredecessorSet(n) == { e[1] : e \in { d \in Range(executor.edges) : d[2] = n } }

\* C32: layers respect dependencies.  In the layers get_execution_order
\* answers for a valid workflow, the source of every edge stands in an
\* earlier layer than its target, so no edge joins two nodes of one layer.
C32_LayersRespectDependencies ==
  (answer # Nothing /\ ValidWorkflow /\ answer[1].op = "get_execution_order") =>
    \A e \in Range(executor.edges) :
      /\ Places(answer[1].result, e[1]) # {}
      /\ Places(answer[1].result, e[2]) # {}
      /\ LayerIndex(answer[1].result, e[1]) < LayerIndex(answer[1].result, e[2])

\* get_execution_order has answered three layers for the chain n1 -> n2 -> n3
\* with the shortcut n1 -> n3.
C32_Witness ==
  /\ answer # Nothing
  /\ answer[1].op = "get_execution_order"
  /\ ValidWorkflow
  /\ Range(executor.edges) = { << "n1", "n2" >>, << "n2", "n3" >>, << "n1", "n3" >> }
  /\ Len(answer[1].result) = 3

\* C33: layers are maximal.  In the layers get_execution_order answers for a
\* valid workflow, the first layer is exactly the set of nodes without an
\* incoming edge, and every node of a later layer has a predecessor in the
\* layer just before its own.
C33_LayersAreMaximal ==
  (answer # Nothing /\ ValidWorkflow /\ answer[1].op = "get_execution_order") =>
    LET layers == answer[1].result
    IN  /\ Len(layers) >= 1
        /\ Range(layers[1]) = { n \in Range(executor.nodes) : PredecessorSet(n) = {} }
        /\ \A k \in 2..Len(layers) :
             \A n \in Range(layers[k]) :
               PredecessorSet(n) \cap Range(layers[k - 1]) # {}

\* get_execution_order has answered two layers for two roots that both lead
\* to the third node.
C33_Witness ==
  /\ answer # Nothing
  /\ answer[1].op = "get_execution_order"
  /\ ValidWorkflow
  /\ Range(executor.edges) = { << "n1", "n3" >>, << "n2", "n3" >> }
  /\ Len(answer[1].result) = 2
  /\ Range(answer[1].result[1]) = { "n1", "n2" }

\* C34: after an execute call on a valid workflow has returned its results,
\* every node carries exactly one of output and error, on the first call and
\* on a later call on the same executor alike.
C34_ExactlyOneOfOutputAndError ==
  (run.phase = "returned" /\ ValidWorkflow /\ run.result # Nothing /\ run.result[1].success) =>
    \A n \in DOMAIN node_objects :
      (node_objects[n].output = Nothing) # (node_objects[n].error = None)

\* C35: no port is leaked.  In ModelManager every port of the held set is the
\* port of an instance that is in the registry.
C35_NoPortLeaked ==
  manager = "vllm" =>
    \A p \in used_ports :
      \E id \in DOMAIN instances : objects[instances[id]].port = p

\* C36: a deploy_model call that fails synchronously, on the instance limit
\* or on a duplicate id, leaves the registry, the held ports and the
\* allocation cursor as they were before the call.
C36_FailedDeployChangesNothing ==
  [][ (ret'.op = "deploy" /\ ret'.result \in { "limit", "duplicate" }) =>
        /\ instances' = instances
        /\ objects' = objects
        /\ used_ports' = used_ports
        /\ next_port' = next_port ]_vars

\* The instance object o has a backend: a subprocess that is alive
\* (ModelManager) or a runner that holds a loaded model
\* (LightweightModelManager).
HasBackend(o) ==
  IF manager = "vllm" THEN objects[o].process = "alive"
                      ELSE objects[o].runner = "loaded"

\* C37: no orphaned backend.  A live subprocess or a loaded runner belongs to
\* an instance that is in the registry and whose status is not STOPPED,
\* whenever stop_model or remove_model arrived.
C37_NoOrphanedBackend ==
  \A o \in Objs :
    HasBackend(o) =>
      /\ objects[o].model_id \in DOMAIN instances
      /\ instances[objects[o].model_id] = o
      /\ objects[o].status # "STOPPED"

\* C38: a backend is never unloaded while a generate call on it is in flight.
\* While execute_node awaits LightweightModelManager.generate, which has
\* passed its status check and awaits the runner, the runner of that model
\* still holds its loaded model.
C38_NoUnloadDuringGenerate ==
  run.phase = "generating" =>
    LET model_id == NodeModel(run.tasks[run.pos][1])
    IN  /\ model_id \in DOMAIN instances
        /\ objects[instances[model_id]].runner = "loaded"

\* C39: substitution is not re-scanned.  Text that build_prompt puts into a
\* prompt is not substituted itself: where the template of a node has the
\* token {input} the prompt the node is started with contains the user input
\* as it was given, a token such as {n1} inside it included, and where the
\* template has the token of a predecessor the prompt contains that
\* predecessor's recorded output as it was recorded.
C39_InsertedTextIsNotSubstituted ==
  \A i \in StartEvents :
    LET n == run.log[i][2]
        prompt == run.log[i][3]
    IN  /\ Occurs(NodeTemplate(n), Token("input")) =>
             (run.user_input = << >> \/ Occurs(prompt, run.user_input))
        /\ \A p \in PredecessorSet(n) :
             Occurs(NodeTemplate(n), Token(p)) =>
               (RecordedOutput(p) = << >> \/ Occurs(prompt, RecordedOutput(p)))

\* C40: every deployed instance leaves the transient statuses.  When the
\* background task is scheduled fairly and the load or spawn returns or
\* fails, an instance that is INITIALIZING or STARTING gets to RUNNING,
\* FAILED, ERROR or STOPPED, whether or not stop_model is called meanwhile.
C40_TransientStatusIsLeft ==
  \A o \in 1..MaxLiveInstances :
    (o \in Objs /\ objects[o].status \in { "INITIALIZING", "STARTING" })
      ~> (o \in Objs /\ objects[o].status \in { "RUNNING", "FAILED", "ERROR", "STOPPED" })

\* The load task of an instance that stop_model had stopped has started and
\* put the instance back to STARTING.
C40_Witness ==
  \E o \in Objs :
    /\ objects[o].status = "STARTING"
    /\ objects[o].task \in { "tokenizer", "weights" }
    /\ \E i \in 1..Len(trans) : trans[i] = << "STOPPED", "STARTING" >>

====
